---- MODULE Spec2Model ----
(***************************************************************************)
(* Model of the git URL reference of pkg/git: the URL grammar parser, the  *)
(* access classifier (IsPublic / SetToken), the clone step and the         *)
(* resource download that composes them.                                   *)
(*                                                                         *)
(* A Go string is a sequence of tokens.  A token is either one punctuation *)
(* character ("/", ".", ":", "-", "@", "?", "#") or a word, a non-empty    *)
(* run of other characters that the code never looks inside.  The empty    *)
(* string is <<>>.  Two words are never adjacent, so equal strings have    *)
(* equal token sequences.  A Go error is its message; nil is <<>>.         *)
(***************************************************************************)
EXTENDS Integers, Sequences, FiniteSets, TLC

VARIABLES
    g,          \* the Url value the methods of the reference API act on
    last,       \* the most recent call on g: operation, inputs, outcome
    executed,   \* process-runner invocations of the most recent clone call
    fs,         \* the filesystem: the set of existing paths
    pc,         \* per caller: position inside DownloadResourcesToDest
    call,       \* per caller: the arguments of its DownloadResourcesToDest
    gitUrl,     \* per caller: the reference parsed by the call
    stackDir,   \* per caller: the scratch directory of the call
    ret,        \* per caller: the error the call returned
    steps,      \* per caller: the steps the call has run, in order
    dest0       \* per caller: the destination's content when the call began

vars == <<g, last, executed, fs, pc, call, gitUrl, stackDir, ret, steps, dest0>>

urlVars == <<g, last, executed>>
downloadVars == <<pc, call, gitUrl, stackDir, ret, steps, dest0>>

----------------------------------------------------------------------------
(* Strings                                                                 *)

Nil == <<>>

\* index of the first occurrence of token t in s at or after i, 0 if none
RECURSIVE IndexFrom(_, _, _)
IndexFrom(s, t, i) ==
    IF i > Len(s) THEN 0
    ELSE IF s[i] = t THEN i
    ELSE IndexFrom(s, t, i + 1)

Index(s, t) == IndexFrom(s, t, 1)

\* s[i:] of Go, i counted from 0
From(s, i) == SubSeq(s, i + 1, Len(s))

HasPrefix(s, p) == Len(s) >= Len(p) /\ SubSeq(s, 1, Len(p)) = p

\* index of the first occurrence of the token sequence sep in s, 0 if none
RECURSIVE IndexOfSeq(_, _, _)
IndexOfSeq(s, sep, i) ==
    IF i + Len(sep) - 1 > Len(s) THEN 0
    ELSE IF SubSeq(s, i, i + Len(sep) - 1) = sep THEN i
    ELSE IndexOfSeq(s, sep, i + 1)

\* a split at every separator, whatever the limit
RECURSIVE SplitAtEvery(_, _, _)
SplitAtEvery(s, sep, n) ==
    LET i == IndexOfSeq(s, sep, 1)
    IN  IF i = 0 THEN <<s>>
        ELSE <<SubSeq(s, 1, i - 1)>>
                 \o SplitAtEvery(SubSeq(s, i + Len(sep), Len(s)), sep, n)

\* strings.SplitN(s, sep, n) for n > 0; strings.Split is SplitN with n = -1,
\* written here as n = 0 (no limit)
RECURSIVE SplitN(_, _, _)
SplitN(s, sep, n) ==
    LET i == IndexOfSeq(s, sep, 1)
    IN  IF n = 1 \/ i = 0 THEN <<s>>
        ELSE <<SubSeq(s, 1, i - 1)>>
                 \o SplitN(SubSeq(s, i + Len(sep), Len(s)), sep,
                           IF n = 0 THEN 0 ELSE n - 1)

Split(s, sep) == SplitN(s, sep, 0)

----------------------------------------------------------------------------
(* Hosts and the reference                                                 *)

GitHubHost == <<"github", ".", "com">>
RawGitHubHost == <<"raw", ".", "githubusercontent", ".", "com">>
GitLabHost == <<"gitlab", ".", "com">>
BitbucketHost == <<"bitbucket", ".", "org">>

\* the zero value Url{}
Url ==
    [Protocol |-> <<>>, Host |-> <<>>, Owner |-> <<>>, Repo |-> <<>>,
     Branch |-> <<>>, Path |-> <<>>, token |-> <<>>, IsFile |-> FALSE]

GitCommand == "git"

unsupportedCmdMsg(cmd) == <<"Unsupported command \"", cmd, "\" ">>

----------------------------------------------------------------------------
(* The HTTP transport (pkg/git/util.go)                                    *)

\* the status from which HTTPGetRequest reports an error: (StatusCode - 300) > 0
StatusLimit == 300

\* http.StatusText for the statuses the transport answers with
StatusText(code) ==
    CASE code = 101 -> "Switching Protocols"
      [] code = 200 -> "OK"
      [] code = 300 -> "Multiple Choices"
      [] code = 404 -> "Not Found"
      [] OTHER -> ""

\* what the transport can answer to one GET: the round trip fails, or a
\* response with a status and a body arrives, or reading the body fails
Statuses == {101, 200, 299, 300, 404}
Bodies == {<<>>, <<"{}">>}
Responses ==
    [kind : {"http"}, status : Statuses, body : Bodies]
        \cup {[kind |-> "neterr", status |-> 0, body |-> <<>>],
              [kind |-> "readerr", status |-> 200, body |-> <<"{}">>]}

HTTPRequestParams(url, token) ==
    [URL |-> url, Token |-> token, TelemetryClientName |-> <<>>]

\* http.NewRequest refuses a URL without a scheme
NewRequestErr(url) ==
    IF url = <<>> \/ Head(url) = ":"
    THEN <<"parse \"">> \o url \o <<"\": missing protocol scheme">>
    ELSE Nil

\* the request HTTPGetRequest hands to the client
NewRequest(request) ==
    [Method |-> "GET",
     URL |-> request.URL,
     Authorization |-> IF request.Token # <<>>
                       THEN <<"Bearer ">> \o request.Token
                       ELSE <<>>,
     Client |-> request.TelemetryClientName]

\* We have a non 1xx / 2xx status, return an error
StatusIsError(resp) == (resp.status - StatusLimit) > 0

HTTPGetRequest(request, cacheFor, resp) ==
    IF NewRequestErr(request.URL) # Nil
    THEN [res |-> <<>>, err |-> NewRequestErr(request.URL)]
    ELSE IF resp.kind = "neterr"
    THEN [res |-> <<>>,
          err |-> <<"Get \"">> \o request.URL \o <<"\": round trip failed">>]
    ELSE IF StatusIsError(resp)
    THEN [res |-> <<>>,
          err |-> <<"failed to retrieve ">> \o request.URL
                    \o <<", ", ToString(resp.status), ": ",
                         StatusText(resp.status)>>]
    ELSE IF resp.kind = "readerr"
    THEN [res |-> <<>>, err |-> <<"unexpected EOF">>]
    ELSE [res |-> resp.body, err |-> Nil]

----------------------------------------------------------------------------
(* The access classifier (pkg/git/git.go)                                  *)

apiUrl(u) ==
    IF u.Host = GitHubHost \/ u.Host = RawGitHubHost
    THEN <<"https", ":", "/", "/", "api", ".", "github", ".", "com", "/",
           "repos", "/">> \o u.Owner \o <<"/">> \o u.Repo
    ELSE IF u.Host = GitLabHost
    THEN <<"https", ":", "/", "/", "gitlab", ".", "com", "/", "api", "/",
           "v4", "/", "projects", "/">> \o u.Owner \o <<"%2F">> \o u.Repo
    ELSE IF u.Host = BitbucketHost
    THEN <<"https", ":", "/", "/", "api", ".", "bitbucket", ".", "org", "/",
           "2", ".", "0", "/", "repositories", "/">>
             \o u.Owner \o <<"/">> \o u.Repo
    ELSE u.Protocol \o <<":", "/", "/">> \o u.Host \o <<"/">> \o u.Owner
             \o <<"/">> \o u.Repo \o <<".", "git">>

\* the error of the probe; Nil when the probe passes
validateToken(u, params, resp) ==
    LET r == HTTPGetRequest([params EXCEPT !.URL = apiUrl(u)], 0, resp)
    IN  IF Len(r.res) = 0 \/ r.err # Nil THEN r.err ELSE Nil

\* a SetToken whose error names the rejected token
SetTokenNamingToken(u, token, resp) ==
    LET err == validateToken(u, HTTPRequestParams(<<>>, token), resp)
    IN  IF err # Nil
        THEN [g |-> [u EXCEPT !.token = <<>>],
              err |-> <<"failed to set token ">> \o token \o <<". error: ">>
                        \o err]
        ELSE [g |-> [u EXCEPT !.token = token], err |-> Nil]

\* the reference after the call, and the error returned
SetToken(u, token, resp) ==
    LET err == validateToken(u, HTTPRequestParams(<<>>, token), resp)
    IN  IF err # Nil
        THEN [g |-> [u EXCEPT !.token = <<>>],
              err |-> <<"failed to set token. error: ">> \o err]
        ELSE [g |-> [u EXCEPT !.token = token], err |-> Nil]

\* a probe that carries the token the reference holds
IsPublicParamsStored(u) == HTTPRequestParams(<<>>, u.token)

\* the parameters IsPublic gives to validateToken: an empty token
IsPublicParams(u) == HTTPRequestParams(<<>>, <<>>)

IsPublic(u, resp) == validateToken(u, IsPublicParams(u), resp) = Nil

\* the requests validateToken hands to the client for these parameters
Requests(u, params) ==
    IF NewRequestErr(apiUrl(u)) = Nil
    THEN <<NewRequest([params EXCEPT !.URL = apiUrl(u)])>>
    ELSE <<>>

\* the request the probe of SetToken / IsPublic sends
ProbeRequest(u, token) ==
    NewRequest(HTTPRequestParams(apiUrl(u), token))

----------------------------------------------------------------------------
(* Paths and the filesystem                                                *)

RECURSIVE LastIndexFrom(_, _, _)
LastIndexFrom(s, t, i) ==
    IF i = 0 THEN 0
    ELSE IF s[i] = t THEN i
    ELSE LastIndexFrom(s, t, i - 1)

LastIndex(s, t) == LastIndexFrom(s, t, Len(s))

RECURSIVE JoinSegs(_)
JoinSegs(segs) ==
    IF segs = <<>> THEN <<>>
    ELSE IF Len(segs) = 1 THEN segs[1]
    ELSE segs[1] \o <<"/">> \o JoinSegs(Tail(segs))

RECURSIVE CleanSegs(_, _, _)
CleanSegs(segs, acc, rooted) ==
    IF segs = <<>> THEN acc
    ELSE LET s == Head(segs)
         IN  IF s = <<>> \/ s = <<".">>
             THEN CleanSegs(Tail(segs), acc, rooted)
             ELSE IF s = <<".", ".">>
             THEN IF acc # <<>> /\ acc[Len(acc)] # <<".", ".">>
                  THEN CleanSegs(Tail(segs), SubSeq(acc, 1, Len(acc) - 1),
                                 rooted)
                  ELSE IF rooted
                  THEN CleanSegs(Tail(segs), acc, rooted)
                  ELSE CleanSegs(Tail(segs), Append(acc, s), rooted)
             ELSE CleanSegs(Tail(segs), Append(acc, s), rooted)

\* path.Clean
Clean(p) ==
    IF p = <<>> THEN <<".">>
    ELSE LET rooted == p[1] = "/"
             body == JoinSegs(CleanSegs(Split(p, <<"/">>), <<>>, rooted))
         IN  IF rooted THEN <<"/">> \o body
             ELSE IF body = <<>> THEN <<".">>
             ELSE body

\* path.Join of two elements
PathJoin(a, b) ==
    IF a = <<>> /\ b = <<>> THEN <<>>
    ELSE IF a = <<>> THEN Clean(b)
    ELSE IF b = <<>> THEN Clean(a)
    ELSE Clean(a \o <<"/">> \o b)

\* path.Dir
PathDir(p) == Clean(SubSeq(p, 1, LastIndex(p, "/")))

\* path.Base of a cleaned path
PathBase(p) == SubSeq(p, LastIndex(p, "/") + 1, Len(p))

\* the filesystem is the set of directories and the set of files that exist
Exists(fsys, p) == Clean(p) \in fsys.dirs \cup fsys.files

Under(fsys, d) ==
    {q \in fsys.dirs \cup fsys.files :
        q # d /\ HasPrefix(q, IF d = <<"/">> THEN d ELSE d \o <<"/">>)}

\* the names ReadDir lists in directory d
Entries(fsys, d) == {q \in Under(fsys, d) : PathDir(q) = d}

\* what follows d in a path under d
Rel(d, q) == SubSeq(q, Len(IF d = <<"/">> THEN d ELSE d \o <<"/">>) + 1, Len(q))

\* os.RemoveAll
RemoveAll(fsys, d) ==
    [dirs |-> fsys.dirs \ ({Clean(d)} \cup Under(fsys, Clean(d))),
     files |-> fsys.files \ ({Clean(d)} \cup Under(fsys, Clean(d)))]

\* the test of Stat's error the wrong way round
CheckPathExistsInverted(path, fsys) == ~Exists(fsys, path)

\* CheckPathExists: Stat reports anything but "does not exist"
CheckPathExists(path, fsys) == Exists(fsys, path)

----------------------------------------------------------------------------
(* The process runner and the clone step                                   *)

\* what the git process can end with: combined output and exit error
RunOk == [output |-> <<"Cloning into">>, err |-> Nil]
RunFailed == [output |-> <<"fatal">>, err |-> <<"exit status 128">>]

\* the content of the remote repository: directories and files, from its root
RemoteDirs == {<<"stacks">>}
RemoteFiles ==
    {<<"devfile", ".", "yaml">>,
     <<"README">>,
     <<"stacks", "/", "devfile", ".", "yaml">>,
     <<"stacks", "/", "deploy", ".", "yaml">>}

\* the directory name git derives from the remote URL when none is given
Humanish(remote) ==
    LET base == SubSeq(remote, LastIndex(remote, "/") + 1, Len(remote))
    IN  IF Len(base) >= 2 /\ SubSeq(base, Len(base) - 1, Len(base)) = <<".", "git">>
        THEN SubSeq(base, 1, Len(base) - 2)
        ELSE base

\* where "git clone" run in baseDir with these arguments puts the work tree
CloneRoot(baseDir, args) ==
    IF Len(args) >= 3 THEN PathJoin(baseDir, args[3])
    ELSE PathJoin(baseDir, Humanish(args[2]))

\* git can clone only from inside an existing directory into an empty place
CanClone(fsys, baseDir, args) ==
    /\ Clean(baseDir) \in fsys.dirs
    /\ CloneRoot(baseDir, args) \notin fsys.files
    /\ Entries(fsys, CloneRoot(baseDir, args)) = {}

\* the filesystem after a successful "git clone"
Cloned(fsys, baseDir, args) ==
    LET root == CloneRoot(baseDir, args)
    IN  [dirs |-> fsys.dirs \cup {root}
                      \cup {PathJoin(root, d) : d \in RemoteDirs},
         files |-> fsys.files \cup {PathJoin(root, f) : f \in RemoteFiles}]

\* a runner that forwards every command to the operating system
executeAny(baseDir, cmd, args, run) ==
    [output |-> run.output, err |-> run.err,
     started |-> <<[BaseDir |-> baseDir, Command |-> cmd, Args |-> args]>>]

\* execute: only "git" reaches the operating system
execute(baseDir, cmd, args, run) ==
    IF cmd = GitCommand
    THEN [output |-> run.output, err |-> run.err,
          started |-> <<[BaseDir |-> baseDir, Command |-> cmd, Args |-> args]>>]
    ELSE [output |-> <<>>, err |-> unsupportedCmdMsg(cmd), started |-> <<>>]

\* the host of the reference used as it is
cloneHostKept(u) == u.Host

\* the host of the remote: raw GitHub is cloned from github.com
cloneHost(u) == IF u.Host = RawGitHubHost THEN GitHubHost ELSE u.Host

\* a clone that stores the host it clones from in the reference
cloneReceiverNormalised(u) == [u EXCEPT !.Host = cloneHost(u)]

\* the reference after CloneGitRepo: host is a local copy of g.Host, and no
\* field of g is assigned
cloneReceiver(u) == u

\* the remote URL handed to "git clone"
repoUrl(u) ==
    IF u.token = <<>>
    THEN u.Protocol \o <<":", "/", "/">> \o cloneHost(u) \o <<"/">>
             \o u.Owner \o <<"/">> \o u.Repo \o <<".", "git">>
    ELSE IF u.Host = BitbucketHost
    THEN u.Protocol \o <<":", "/", "/", "x", "-", "token", "-", "auth", ":">>
             \o u.token \o <<"@">> \o cloneHost(u) \o <<"/">>
             \o u.Owner \o <<"/">> \o u.Repo \o <<".", "git">>
    ELSE u.Protocol \o <<":", "/", "/", "token", ":">>
             \o u.token \o <<"@">> \o cloneHost(u) \o <<"/">>
             \o u.Owner \o <<"/">> \o u.Repo \o <<".", "git">>

\* git.go: "git clone <remote>"
cloneArgs(u) == <<<<"clone">>, repoUrl(u)>>

\* the clone left to name its own directory under the working directory
cloneArgsDefaultDir(u) == <<<<"clone">>, repoUrl(u)>>

\* the Url of DownloadResourcesToDest: "git clone <remote> ."
cloneArgsHere(u) == <<<<"clone">>, repoUrl(u), <<".">>>>

\* the process error returned as it is
cloneErrorUnwrapped(u, err) == err

\* the error returned for the error of the "git clone" process
cloneError(u, err) ==
    IF err = Nil THEN Nil
    ELSE IF u.token = <<>>
    THEN <<"failed to clone repo without a token, ensure that a token is set if the repo is private. error: ">> \o err
    ELSE <<"failed to clone repo with token, ensure that the url and token is correct. error: ">> \o err

cloneGitRepoWith(u, destDir, fsys, run, args) ==
    IF ~CheckPathExists(destDir, fsys)
    THEN [err |-> <<"failed to clone repo, destination directory: '">>
                      \o destDir \o <<"' does not exists">>,
          started |-> <<>>]
    ELSE LET c == execute(destDir, GitCommand, args, run)
         IN  [err |-> cloneError(u, c.err), started |-> c.started]

\* CloneGitRepo of pkg/git/git.go: the error returned and the processes started
CloneGitRepo(u, destDir, fsys, run) ==
    cloneGitRepoWith(u, destDir, fsys, run, cloneArgs(u))

\* CloneGitRepo of the Url that has DownloadResourcesToDest
CloneGitRepoHere(u, destDir, fsys, run) ==
    cloneGitRepoWith(u, destDir, fsys, run, cloneArgsHere(u))

\* the outcomes the git process can have for these arguments
RunResults(fsys, baseDir, args) ==
    IF CanClone(fsys, baseDir, args) THEN {RunOk, RunFailed} ELSE {RunFailed}

\* the filesystem after the executions of one clone call
AfterClone(fsys, c) ==
    IF c.started # <<>> /\ c.err = Nil
    THEN Cloned(fsys, c.started[1].BaseDir, c.started[1].Args)
    ELSE fsys

----------------------------------------------------------------------------
(* net/url.Parse, as far as ParseGitUrl reads its result                   *)

Punctuation == {"/", ".", ":", "-", "@", "?", "#"}

PortWords == {"443"}

CutBefore(s, t) == IF Index(s, t) = 0 THEN s ELSE SubSeq(s, 1, Index(s, t) - 1)

\* getScheme: [scheme, rest, err]
RECURSIVE getSchemeFrom(_, _)
getSchemeFrom(rawURL, i) ==
    IF i > Len(rawURL) THEN [scheme |-> <<>>, rest |-> rawURL, err |-> Nil]
    ELSE IF rawURL[i] \notin Punctuation
    THEN getSchemeFrom(rawURL, i + 1)
    ELSE IF rawURL[i] \in {"-", "."}
    THEN IF i = 1
         THEN [scheme |-> <<>>, rest |-> rawURL, err |-> Nil]
         ELSE getSchemeFrom(rawURL, i + 1)
    ELSE IF rawURL[i] = ":"
    THEN IF i = 1
         THEN [scheme |-> <<>>, rest |-> <<>>,
               err |-> <<"missing protocol scheme">>]
         ELSE [scheme |-> SubSeq(rawURL, 1, i - 1),
               rest |-> SubSeq(rawURL, i + 1, Len(rawURL)), err |-> Nil]
    ELSE [scheme |-> <<>>, rest |-> rawURL, err |-> Nil]

getScheme(rawURL) == getSchemeFrom(rawURL, 1)

\* the host of an authority: what follows the last "@"; a port must be digits
parseAuthority(authority) ==
    LET host == SubSeq(authority, LastIndex(authority, "@") + 1, Len(authority))
        colon == LastIndex(host, ":")
        port == SubSeq(host, colon + 1, Len(host))
    IN  IF colon # 0 /\ port # <<>> /\ ~(Len(port) = 1 /\ port[1] \in PortWords)
        THEN [host |-> <<>>, err |-> <<"invalid port">>]
        ELSE [host |-> host, err |-> Nil]

\* unescape: a percent-escape in the path is replaced by its character
unescape(s) == [i \in 1 .. Len(s) |-> IF s[i] = "%20" THEN " " ELSE s[i]]

urlError(rawURL, err) == <<"parse \"">> \o rawURL \o <<"\": ">> \o err

\* url.Parse: [Scheme, Host, Path, err]
urlParse(rawURL) ==
    LET u == CutBefore(rawURL, "#")
        sch == getScheme(u)
        rest == CutBefore(sch.rest, "?")
        failed(e) == [Scheme |-> <<>>, Host |-> <<>>, Path |-> <<>>,
                      err |-> urlError(u, e)]
    IN  IF sch.err # Nil THEN failed(sch.err)
        ELSE IF ~HasPrefix(rest, <<"/">>) /\ sch.scheme # <<>>
        THEN \* an opaque URL: neither host nor path
             [Scheme |-> sch.scheme, Host |-> <<>>, Path |-> <<>>, err |-> Nil]
        ELSE IF ~HasPrefix(rest, <<"/">>) /\ Index(CutBefore(rest, "/"), ":") # 0
        THEN failed(<<"first path segment in URL cannot contain colon">>)
        ELSE IF HasPrefix(rest, <<"/", "/">>)
                  /\ (sch.scheme # <<>> \/ ~HasPrefix(rest, <<"/", "/", "/">>))
        THEN LET after == From(rest, 2)
                 authority == CutBefore(after, "/")
                 path == SubSeq(after, Len(authority) + 1, Len(after))
                 a == parseAuthority(authority)
             IN  IF a.err # Nil THEN failed(a.err)
                 ELSE [Scheme |-> sch.scheme, Host |-> a.host,
                       Path |-> unescape(path), err |-> Nil]
        ELSE [Scheme |-> sch.scheme, Host |-> <<>>, Path |-> unescape(rest),
              err |-> Nil]

\* ValidateURL
ValidateURL(sourceURL) ==
    LET u == urlParse(sourceURL)
    IN  IF u.err # Nil THEN u.err
        ELSE IF Len(u.Host) = 0 \/ Len(u.Scheme) = 0 THEN <<"URL is invalid">>
        ELSE Nil

\* filepath.Ext: from the last dot of the last element, empty without a dot
RECURSIVE ExtFrom(_, _)
ExtFrom(path, i) ==
    IF i = 0 \/ path[i] = "/" THEN <<>>
    ELSE IF path[i] = "." THEN SubSeq(path, i, Len(path))
    ELSE ExtFrom(path, i - 1)

Ext(path) == ExtFrom(path, Len(path))

----------------------------------------------------------------------------
(* The URL grammar parser: [g |-> the reference after the call, err]       *)

\* a GitHub grammar that takes any third segment for a directory keyword
parseGitHubUrlAnyKeyword(u, url) ==
    LET g1 == [u EXCEPT !.Protocol = url.Scheme, !.Host = url.Host]
        rest == From(url.Path, 1)
        splitUrl == SplitN(rest, <<"/">>, IF g1.Host = RawGitHubHost THEN 4 ELSE 5)
    IN  IF g1.Host = RawGitHubHost
        THEN IF Len(splitUrl) = 4
             THEN [g |-> [g1 EXCEPT !.IsFile = TRUE, !.Owner = splitUrl[1],
                                    !.Repo = splitUrl[2],
                                    !.Branch = splitUrl[3],
                                    !.Path = splitUrl[4]],
                   err |-> Nil]
             ELSE [g |-> [g1 EXCEPT !.IsFile = TRUE],
                   err |-> <<"raw url path should contain <owner>/<repo>/<branch>/<path/to/file>, received: ">> \o rest]
        ELSE IF Len(splitUrl) < 2
        THEN [g |-> g1,
              err |-> <<"url path should contain <user>/<repo>, received: ">> \o rest]
        ELSE LET g2 == [g1 EXCEPT !.Owner = splitUrl[1], !.Repo = splitUrl[2]]
             IN  IF Len(splitUrl) = 2 THEN [g |-> g2, err |-> Nil]
                 ELSE IF Len(splitUrl) = 5
                 THEN [g |-> [g2 EXCEPT !.IsFile = (splitUrl[3] = <<"blob">>),
                                        !.Branch = splitUrl[4],
                                        !.Path = splitUrl[5]],
                       err |-> Nil]
                 ELSE [g |-> g2,
                       err |-> <<"url path should contain <owner>/<repo>/<tree or blob>/<branch>/<path/to/file/or/directory>, received: ">> \o rest]

parseGitHubUrl(u, url) ==
    LET g1 == [u EXCEPT !.Protocol = url.Scheme, !.Host = url.Host]
        rest == From(url.Path, 1)
    IN  IF g1.Host = RawGitHubHost
        THEN LET splitUrl == SplitN(rest, <<"/">>, 4)
                 g2 == [g1 EXCEPT !.IsFile = TRUE]
             IN  IF Len(splitUrl) = 4
                 THEN [g |-> [g2 EXCEPT !.Owner = splitUrl[1],
                                        !.Repo = splitUrl[2],
                                        !.Branch = splitUrl[3],
                                        !.Path = splitUrl[4]],
                       err |-> Nil]
                 ELSE [g |-> g2,
                       err |-> <<"raw url path should contain <owner>/<repo>/<branch>/<path/to/file>, received: ">> \o rest]
        ELSE IF g1.Host = GitHubHost
        THEN LET splitUrl == SplitN(rest, <<"/">>, 5)
             IN  IF Len(splitUrl) < 2
                 THEN [g |-> g1,
                       err |-> <<"url path should contain <user>/<repo>, received: ">> \o rest]
                 ELSE LET g2 == [g1 EXCEPT !.Owner = splitUrl[1],
                                           !.Repo = splitUrl[2]]
                      IN  IF Len(splitUrl) = 2 THEN [g |-> g2, err |-> Nil]
                          ELSE IF splitUrl[3] \notin {<<"tree">>, <<"blob">>}
                          THEN [g |-> g2,
                                err |-> <<"url path to directory or file should contain 'tree' or 'blob'">>]
                          ELSE LET g3 == [g2 EXCEPT !.IsFile = (splitUrl[3] = <<"blob">>)]
                               IN  IF Len(splitUrl) = 5
                                   THEN [g |-> [g3 EXCEPT !.Branch = splitUrl[4],
                                                          !.Path = splitUrl[5]],
                                         err |-> Nil]
                                   ELSE [g |-> g3,
                                         err |-> <<"url path should contain <owner>/<repo>/<tree or blob>/<branch>/<path/to/file/or/directory>, received: ">> \o rest]
        ELSE [g |-> g1, err |-> Nil]

parseGitLabUrl(u, url) ==
    LET g1 == [u EXCEPT !.Protocol = url.Scheme, !.Host = url.Host,
                        !.IsFile = FALSE]
        rest == From(url.Path, 1)
        split == Split(rest, <<"/", "-", "/">>)
        splitOrg == SplitN(split[1], <<"/">>, 2)
    IN  IF Len(splitOrg) < 2
        THEN [g |-> g1,
              err |-> <<"url path should contain <user>/<repo>, received: ">> \o rest]
        ELSE LET g2 == [g1 EXCEPT !.Owner = splitOrg[1], !.Repo = splitOrg[2]]
                 splitFile == IF Len(split) = 2
                              THEN SplitN(split[2], <<"/">>, 3)
                              ELSE <<>>
             IN  IF Len(split) = 1 THEN [g |-> g2, err |-> Nil]
                 ELSE IF Len(splitFile) = 3
                 THEN IF splitFile[1] \in {<<"blob">>, <<"tree">>, <<"raw">>}
                      THEN [g |-> [g2 EXCEPT !.Branch = splitFile[2],
                                             !.Path = splitFile[3],
                                             !.IsFile = (Ext(splitFile[3]) # <<>>)],
                            err |-> Nil]
                      ELSE [g |-> g2,
                            err |-> <<"url path should contain 'blob' or 'tree' or 'raw', received: ">> \o rest]
                 ELSE [g |-> g2,
                       err |-> <<"url path to directory or file should contain <blob or tree or raw>/<branch>/<path/to/file/or/directory>, received: ">> \o rest]

\* a Bitbucket grammar that takes any third segment for a keyword
parseBitbucketUrlAnyKeyword(u, url) ==
    LET g1 == [u EXCEPT !.Protocol = url.Scheme, !.Host = url.Host,
                        !.IsFile = FALSE]
        rest == From(url.Path, 1)
        splitUrl == SplitN(rest, <<"/">>, 5)
    IN  IF Len(splitUrl) < 2
        THEN [g |-> g1,
              err |-> <<"url path should contain <user>/<repo>, received: ">> \o rest]
        ELSE LET g2 == [g1 EXCEPT !.Owner = splitUrl[1], !.Repo = splitUrl[2]]
             IN  IF Len(splitUrl) = 2 THEN [g |-> g2, err |-> Nil]
                 ELSE IF Len(splitUrl) = 5
                 THEN [g |-> [g2 EXCEPT !.Branch = splitUrl[4],
                                        !.Path = splitUrl[5],
                                        !.IsFile = (Ext(splitUrl[5]) # <<>>)],
                       err |-> Nil]
                 ELSE [g |-> g2,
                       err |-> <<"url path should contain path to directory or file, received: ">> \o rest]

\* a Bitbucket grammar that accepts only URLs with a path below the repository
parseBitbucketUrlNeedsPath(u, url) ==
    LET g1 == [u EXCEPT !.Protocol = url.Scheme, !.Host = url.Host,
                        !.IsFile = FALSE]
        rest == From(url.Path, 1)
        splitUrl == SplitN(rest, <<"/">>, 5)
    IN  IF Len(splitUrl) < 5
        THEN [g |-> g1,
              err |-> <<"url path should contain path to directory or file, received: ">> \o rest]
        ELSE [g |-> [g1 EXCEPT !.Owner = splitUrl[1], !.Repo = splitUrl[2],
                               !.Branch = splitUrl[4], !.Path = splitUrl[5],
                               !.IsFile = (Ext(splitUrl[5]) # <<>>)],
              err |-> Nil]

parseBitbucketUrl(u, url) ==
    LET g1 == [u EXCEPT !.Protocol = url.Scheme, !.Host = url.Host,
                        !.IsFile = FALSE]
        rest == From(url.Path, 1)
        splitUrl == SplitN(rest, <<"/">>, 5)
    IN  IF Len(splitUrl) < 2
        THEN [g |-> g1,
              err |-> <<"url path should contain <user>/<repo>, received: ">> \o rest]
        ELSE LET g2 == [g1 EXCEPT !.Owner = splitUrl[1], !.Repo = splitUrl[2]]
             IN  IF Len(splitUrl) = 2 THEN [g |-> g2, err |-> Nil]
                 ELSE IF Len(splitUrl) = 5
                 THEN IF splitUrl[3] \in {<<"raw">>, <<"src">>}
                      THEN [g |-> [g2 EXCEPT !.Branch = splitUrl[4],
                                             !.Path = splitUrl[5],
                                             !.IsFile = (Ext(splitUrl[5]) # <<>>)],
                            err |-> Nil]
                      ELSE [g |-> g2,
                            err |-> <<"url path should contain 'raw' or 'src', received: ">> \o rest]
                 ELSE [g |-> g2,
                       err |-> <<"url path should contain path to directory or file, received: ">> \o rest]

\* a parse that dispatches on the host before it looks at the path
ParseGitUrlHostFirst(u, fullUrl) ==
    LET parsedUrl == urlParse(fullUrl)
    IN  IF ValidateURL(fullUrl) # Nil THEN [g |-> u, err |-> ValidateURL(fullUrl)]
        ELSE IF parsedUrl.err # Nil THEN [g |-> u, err |-> parsedUrl.err]
        ELSE IF parsedUrl.Host \notin {RawGitHubHost, GitHubHost, GitLabHost,
                                       BitbucketHost}
        THEN [g |-> u,
              err |-> <<"url host should be a valid GitHub, GitLab, or Bitbucket host; received: ">> \o parsedUrl.Host]
        ELSE IF Len(parsedUrl.Path) = 0
        THEN [g |-> u, err |-> <<"url path should not be empty">>]
        ELSE IF parsedUrl.Host = RawGitHubHost \/ parsedUrl.Host = GitHubHost
        THEN parseGitHubUrl(u, parsedUrl)
        ELSE IF parsedUrl.Host = GitLabHost THEN parseGitLabUrl(u, parsedUrl)
        ELSE parseBitbucketUrl(u, parsedUrl)

\* ParseGitUrl of pkg/git/git.go: parses into the receiver u
ParseGitUrl(u, fullUrl) ==
    LET parsedUrl == urlParse(fullUrl)
    IN  IF ValidateURL(fullUrl) # Nil THEN [g |-> u, err |-> ValidateURL(fullUrl)]
        ELSE IF parsedUrl.err # Nil THEN [g |-> u, err |-> parsedUrl.err]
        ELSE IF Len(parsedUrl.Path) = 0
        THEN [g |-> u, err |-> <<"url path should not be empty">>]
        ELSE IF parsedUrl.Host = RawGitHubHost \/ parsedUrl.Host = GitHubHost
        THEN parseGitHubUrl(u, parsedUrl)
        ELSE IF parsedUrl.Host = GitLabHost THEN parseGitLabUrl(u, parsedUrl)
        ELSE IF parsedUrl.Host = BitbucketHost THEN parseBitbucketUrl(u, parsedUrl)
        ELSE [g |-> u,
              err |-> <<"url host should be a valid GitHub, GitLab, or Bitbucket host; received: ">> \o parsedUrl.Host]

\* NewGitUrlWithURL: parses into a fresh Url
NewGitUrlWithURL(url) == ParseGitUrl(Url, url)

\* GitRawFileAPI
GitRawFileAPI(u) ==
    IF u.Host = GitHubHost \/ u.Host = RawGitHubHost
    THEN <<"https", ":", "/", "/", "raw", ".", "githubusercontent", ".", "com", "/">>
             \o u.Owner \o <<"/">> \o u.Repo \o <<"/">> \o u.Branch
             \o <<"/">> \o u.Path
    ELSE IF u.Host = GitLabHost
    THEN <<"https", ":", "/", "/", "gitlab", ".", "com", "/", "api", "/",
           "v4", "/", "projects", "/">> \o u.Owner \o <<"%2F">> \o u.Repo
             \o <<"/", "repository", "/", "files", "/">> \o u.Path
             \o <<"/", "raw">>
    ELSE IF u.Host = BitbucketHost
    THEN <<"https", ":", "/", "/", "api", ".", "bitbucket", ".", "org", "/",
           "2", ".", "0", "/", "repositories", "/">>
             \o u.Owner \o <<"/">> \o u.Repo \o <<"/", "src", "/">>
             \o u.Branch \o <<"/">> \o u.Path
    ELSE <<>>

\* IsGitProviderRepo
IsGitProviderRepo(u) ==
    u.Host \in {GitHubHost, RawGitHubHost, GitLabHost, BitbucketHost}

----------------------------------------------------------------------------
(* Inputs                                                                  *)

https(host, path) == <<"https", ":", "/", "/">> \o host \o path

OwnerRepo == <<"/", "devfile", "/", "registry">>

\* URLs parsed into the reference g
Urls ==
    {<<>>,
     https(<<"google", ".", "ca">>, <<"/">>),
     https(GitHubHost, OwnerRepo),
     https(GitHubHost,
           OwnerRepo \o <<"/", "blob", "/", "main", "/", "devfile", ".", "yaml">>),
     https(RawGitHubHost,
           OwnerRepo \o <<"/", "main", "/", "stacks", "/", "devfile", ".", "yaml">>),
     https(GitLabHost,
           OwnerRepo \o <<"/", "-", "/", "tree", "/", "main", "/", "stacks">>),
     https(BitbucketHost,
           OwnerRepo \o <<"/", "src", "/", "main", "/", "stacks", "/",
                          "deploy", ".", "yaml">>)}

\* URLs given to DownloadResourcesToDest
DownloadUrls ==
    {<<>>,
     https(<<"google", ".", "ca">>, <<"/">>),
     https(GitHubHost, OwnerRepo),
     https(GitHubHost, OwnerRepo \o <<"/", "blob", "/", "main">>),
     https(GitHubHost, OwnerRepo \o <<"/", "tree", "/", "main", "/", "stacks">>),
     https(GitHubHost,
           OwnerRepo \o <<"/", "blob", "/", "main", "/", "devfile", ".", "yaml">>),
     https(GitHubHost,
           OwnerRepo \o <<"/", "blob", "/", "main", "/", "nodejs", "/",
                          "devfile", ".", "yaml">>),
     https(RawGitHubHost,
           OwnerRepo \o <<"/", "main", "/", "stacks", "/", "devfile", ".", "yaml">>),
     https(GitLabHost,
           OwnerRepo \o <<"/", "-", "/", "blob", "/", "main", "/",
                          "devfile", ".", "yaml">>),
     https(GitLabHost,
           OwnerRepo \o <<"/", "-", "/", "tree", "/", "main", "/", "stacks">>),
     https(BitbucketHost,
           OwnerRepo \o <<"/", "src", "/", "main", "/", "stacks", "/",
                          "deploy", ".", "yaml">>)}

\* the URLs of the grammar checks: every host with every path, and strings
\* that are not absolute URLs
UnknownHost == <<"google", ".", "ca">>

ParseHosts == {GitHubHost, RawGitHubHost, GitLabHost, BitbucketHost, UnknownHost}

Yaml == <<"devfile", ".", "yaml">>

ParsePaths ==
    {<<>>,
     <<"/">>,
     <<"/", "devfile">>,
     <<"/", "devfile", "/">>,
     <<"/", "/", "registry">>,
     OwnerRepo,
     OwnerRepo \o <<"/">>,
     OwnerRepo \o <<"/", "tree">>,
     OwnerRepo \o <<"/", "main">>,
     OwnerRepo \o <<"/", "main", "/">>,
     OwnerRepo \o <<"/", "blob", "/", "main">>,
     OwnerRepo \o <<"/", "tree", "/", "main", "/">>,
     OwnerRepo \o <<"/", "tree", "/", "main", "/", "stacks">>,
     OwnerRepo \o <<"/", "blob", "/", "main", "/", "stacks", "/">> \o Yaml,
     OwnerRepo \o <<"/", "main", "/", "stacks", "/">> \o Yaml,
     OwnerRepo \o <<"/", "src", "/", "main", "/", "stacks", "/">> \o Yaml,
     OwnerRepo \o <<"/", "raw", "/", "main", "/", "stacks">>,
     OwnerRepo \o <<"/", "src", "/", "main", "/">>,
     OwnerRepo \o <<"/", "-", "/", "tree", "/", "main", "/", "stacks">>,
     OwnerRepo \o <<"/", "-", "/", "blob", "/", "main", "/">> \o Yaml,
     OwnerRepo \o <<"/", "-", "/", "tree", "/", "main", "/">>,
     OwnerRepo \o <<"/", "-", "/", "tree", "/", "main">>,
     OwnerRepo \o <<"/", "-", "/", "src", "/", "main", "/", "stacks">>,
     OwnerRepo \o <<"/", "-", "/", "main", "/", "stacks">>,
     OwnerRepo \o <<"/", "-", "/", "blob", "/", "main", "/", "stacks", "/",
                    "-", "/">> \o Yaml,
     OwnerRepo \o <<"/", "-", "/", "blob", "/", "main", "/", "README", ".">>,
     OwnerRepo \o <<"/", "-", "/", "tree", "/", "main", "/", "v1", ".", "0",
                    "/", "stacks">>,
     OwnerRepo \o <<"/", "src", "/", "main", "/", "README", ".">>,
     OwnerRepo \o <<"/", "src", "/", "main", "/", "v1", ".", "0", "/",
                    "stacks">>,
     OwnerRepo \o <<"/", "raw", "/", "main", "/", ".", "gitignore">>,
     OwnerRepo \o <<"/", "main", "/", "my", "%20">> \o Yaml,
     <<"/", "group", "/", "subgroup", "/", "project">>,
     <<"/", "group", "/", "subgroup", "/", "project", "/", "-", "/", "blob",
       "/", "main", "/">> \o Yaml}

ParseUrls ==
    {https(h, p) : h \in ParseHosts, p \in ParsePaths}
        \cup {<<>>,
              GitHubHost \o OwnerRepo,
              <<":", "/", "/">> \o GitHubHost \o OwnerRepo,
              <<"https", ":", "/", "/">> \o OwnerRepo,
              <<"https", ":">> \o GitHubHost \o OwnerRepo,
              https(GitHubHost \o <<":", "port">>, OwnerRepo),
              <<"http", ":", "/", "/">> \o GitHubHost \o OwnerRepo}

\* the URLs parsed into a reference that a parse has filled before
ReparseUrls ==
    {https(GitHubHost, OwnerRepo),
     https(GitLabHost, OwnerRepo),
     https(BitbucketHost, OwnerRepo),
     https(GitHubHost, OwnerRepo \o <<"/", "tree", "/", "main", "/", "stacks">>),
     https(RawGitHubHost, OwnerRepo \o <<"/", "main", "/", "stacks", "/">> \o Yaml)}

\* URLs of files, given to concurrent calls
ConcurrentUrls ==
    {https(GitHubHost,
           OwnerRepo \o <<"/", "blob", "/", "main", "/", "devfile", ".", "yaml">>),
     https(RawGitHubHost,
           OwnerRepo \o <<"/", "main", "/", "stacks", "/", "devfile", ".", "yaml">>)}

\* tokens a caller can supply
Tokens == {<<>>, <<"tokenA">>, <<"tokenB">>}

\* command identifiers given to execute
Commands == {GitCommand, "cd", "rm"}

\* references built directly, as the package's tests build them
invalidGitUrl ==
    [Url EXCEPT !.Owner = <<"nonexistent">>, !.Repo = <<"nonexistent">>,
                !.Branch = <<"nonexistent">>]

invalidPrivateGitHubRepo ==
    [Url EXCEPT !.Protocol = <<"https">>, !.Host = GitHubHost,
                !.Owner = <<"fake", "-", "owner">>,
                !.Repo = <<"fake", "-", "private", "-", "repo">>,
                !.Branch = <<"master">>,
                !.token = <<"fake", "-", "github", "-", "token">>]

InitUrls == {Url, invalidGitUrl, invalidPrivateGitHubRepo}

\* the number of concurrent callers of DownloadResourcesToDest
NumCallers == 2

Callers == 1 .. NumCallers

\* the number of names TempDir can choose from
NumScratchNames == 2

TempRoot == <<"/", "tmp">>

\* os.TempDir() joined with the pattern "git-resources" and a random suffix
ScratchName(i) == TempRoot \o <<"/", "git", "-", "resources" \o ToString(i)>>

OutDir(p) == <<"/", "out" \o ToString(p)>>

MissingDir == <<"/", "tmp", "/", "nonexistent">>

InitFs ==
    [dirs |-> {<<"/">>, TempRoot} \cup {OutDir(p) : p \in Callers},
     files |-> {OutDir(p) \o <<"/", "notes">> : p \in Callers}]

----------------------------------------------------------------------------
(* The reference API: calls on one Url value g                             *)

NoResponse == [kind |-> "none", status |-> 0, body |-> <<>>]

\* no process has answered
NoRun == [output |-> <<>>, err |-> Nil]

NoCall ==
    [op |-> "none", arg |-> <<>>, resp |-> NoResponse, prevToken |-> <<>>,
     err |-> Nil, pub |-> FALSE, out |-> <<>>, run |-> NoRun, sent |-> <<>>]

DownloadIdle ==
    /\ pc = [p \in Callers |-> "off"]
    /\ call = [p \in Callers |-> [url |-> <<>>, destDir |-> <<>>, token |-> <<>>]]
    /\ gitUrl = [p \in Callers |-> Url]
    /\ stackDir = [p \in Callers |-> <<>>]
    /\ ret = [p \in Callers |-> Nil]
    /\ steps = [p \in Callers |-> <<>>]
    /\ dest0 = [p \in Callers |-> {}]

InitUrl ==
    /\ g \in InitUrls
    /\ last = NoCall
    /\ executed = <<>>
    /\ fs = InitFs
    /\ DownloadIdle

ParseGitUrlCall ==
    \E url \in Urls :
        LET r == ParseGitUrl(g, url)
        IN  /\ g' = r.g
            /\ last' = [NoCall EXCEPT !.op = "ParseGitUrl", !.arg = url,
                                      !.prevToken = g.token, !.err = r.err]
            /\ executed' = <<>>
            /\ UNCHANGED <<fs, downloadVars>>

SetTokenCall ==
    \E token \in Tokens, resp \in Responses :
        LET r == SetToken(g, token, resp)
        IN  /\ g' = r.g
            /\ last' = [NoCall EXCEPT !.op = "SetToken", !.arg = token,
                                      !.resp = resp, !.prevToken = g.token,
                                      !.err = r.err]
            /\ executed' = <<>>
            /\ UNCHANGED <<fs, downloadVars>>

IsPublicCall ==
    \E resp \in Responses :
        /\ last' = [NoCall EXCEPT !.op = "IsPublic", !.resp = resp,
                                  !.prevToken = g.token, !.pub = IsPublic(g, resp),
                                  !.sent = Requests(g, IsPublicParams(g))]
        /\ executed' = <<>>
        /\ UNCHANGED <<g, fs, downloadVars>>

CloneGitRepoCall ==
    \E destDir \in {OutDir(1), MissingDir} :
        \E run \in RunResults(fs, destDir, cloneArgs(g)) :
            LET c == CloneGitRepo(g, destDir, fs, run)
            IN  /\ last' = [NoCall EXCEPT !.op = "CloneGitRepo",
                                          !.arg = destDir, !.prevToken = g.token,
                                          !.err = c.err,
                                          !.run = IF c.started = <<>>
                                                  THEN NoRun ELSE run]
                /\ executed' = c.started
                /\ fs' = AfterClone(fs, c)
                /\ g' = cloneReceiver(g)
                /\ UNCHANGED downloadVars

\* execute called directly, as TestExecute does
ExecuteCall ==
    \E cmd \in Commands, run \in {RunOk, RunFailed} :
        LET c == execute(OutDir(1), cmd, <<<<"help">>>>, run)
        IN  /\ last' = [NoCall EXCEPT !.op = "execute", !.arg = <<cmd>>,
                                      !.prevToken = g.token, !.err = c.err,
                                      !.out = c.output,
                                      !.run = IF c.started = <<>>
                                              THEN NoRun ELSE run]
            /\ executed' = c.started
            /\ UNCHANGED <<g, fs, downloadVars>>

\* g.GitRawFileAPI(); arg keeps the URL when g comes from a parse of it
GitRawFileAPICall ==
    /\ last' = [NoCall EXCEPT !.op = "GitRawFileAPI", !.prevToken = g.token,
                              !.out = GitRawFileAPI(g),
                              !.arg = IF last.op \in {"NewGitUrl", "ParseGitUrl"}
                                          /\ last.err = Nil
                                      THEN last.arg ELSE <<>>]
    /\ executed' = <<>>
    /\ UNCHANGED <<g, fs, downloadVars>>

\* g := Url{}; g.NewGitUrl(url): a parse into a fresh reference
NewGitUrlCall ==
    \E url \in ParseUrls :
        LET r == ParseGitUrl(Url, url)
        IN  /\ g' = r.g
            /\ last' = [NoCall EXCEPT !.op = "NewGitUrl", !.arg = url,
                                      !.err = r.err]
            /\ executed' = <<>>
            /\ UNCHANGED <<fs, downloadVars>>

\* g.NewGitUrl(url) on the reference an earlier NewGitUrl has filled
NewGitUrlAgainCall ==
    /\ last.op \in {"NewGitUrl", "NewGitUrlAgain"}
    /\ last.err = Nil
    /\ \E url \in ReparseUrls :
           LET r == ParseGitUrl(g, url)
           IN  /\ g' = r.g
               /\ last' = [NoCall EXCEPT !.op = "NewGitUrlAgain", !.arg = url,
                                         !.err = r.err]
               /\ executed' = <<>>
               /\ UNCHANGED <<fs, downloadVars>>

NextUrl ==
    \/ ParseGitUrlCall
    \/ SetTokenCall
    \/ IsPublicCall
    \/ CloneGitRepoCall
    \/ ExecuteCall
    \/ GitRawFileAPICall

SpecUrl == InitUrl /\ [][NextUrl]_vars

\* the grammar parser alone: parses into a fresh reference and into g
NextParse ==
    \/ NewGitUrlCall
    \/ NewGitUrlAgainCall
    \/ GitRawFileAPICall
    \/ ParseGitUrlCall

SpecParse == InitUrl /\ [][NextParse]_vars

----------------------------------------------------------------------------
(* DownloadResourcesToDest, one action per blocking step of a call         *)

\* CopyAllDirFiles: copies the entries of srcDir, with what is under them,
\* into destDir; `copied` are the entries it got through before it stopped
CopyAllDirFiles(fsys, srcDir, destDir, copied) ==
    IF Clean(srcDir) \notin fsys.dirs
    THEN [fs |-> fsys, err |-> <<"failed reading dir ">> \o srcDir]
    ELSE IF Clean(destDir) \notin fsys.dirs
    THEN [fs |-> fsys, err |-> <<"failed to copy into ">> \o destDir]
    ELSE LET moved == {q \in fsys.dirs \cup fsys.files :
                          \E e \in copied : q = e \/ q \in Under(fsys, e)}
             target(q) == PathJoin(destDir, Rel(Clean(srcDir), q))
         IN  [fs |-> [dirs |-> fsys.dirs
                                 \cup {target(q) : q \in moved \cap fsys.dirs},
                      files |-> fsys.files
                                 \cup {target(q) : q \in moved \cap fsys.files}],
              err |-> IF copied = Entries(fsys, Clean(srcDir)) THEN Nil
                      ELSE <<"failed to copy ">> \o srcDir]

\* os.Remove in place of os.RemoveAll: removes an empty directory only
deferredRemove(fsys, dir) ==
    IF Under(fsys, Clean(dir)) = {} THEN RemoveAll(fsys, dir) ELSE fsys

\* the deferred os.RemoveAll(stackDir), run when the call returns
deferredRemoveAll(fsys, dir) == RemoveAll(fsys, dir)

\* the directory of the target inside the clone
targetDir(scratch, u) == PathDir(PathJoin(scratch, u.Path))

\* what a destination directory holds
Content(fsys, d) ==
    {q \in fsys.dirs \cup fsys.files : q = Clean(d) \/ q \in Under(fsys, Clean(d))}

\* the request a probe puts on the wire, if it gets that far
Sent(u, token) ==
    IF NewRequestErr(apiUrl(u)) = Nil THEN <<ProbeRequest(u, token)>> ELSE <<>>

Step(name, failed, io) == [step |-> name, failed |-> failed, io |-> io]

Init ==
    /\ g = Url
    /\ last = NoCall
    /\ executed = <<>>
    /\ fs = InitFs
    /\ pc = [p \in Callers |-> IF p = 1 THEN "idle" ELSE "off"]
    /\ call = [p \in Callers |-> [url |-> <<>>, destDir |-> <<>>, token |-> <<>>]]
    /\ gitUrl = [p \in Callers |-> Url]
    /\ stackDir = [p \in Callers |-> <<>>]
    /\ ret = [p \in Callers |-> Nil]
    /\ steps = [p \in Callers |-> <<>>]
    /\ dest0 = [p \in Callers |-> {}]

\* the call begins: NewGitUrlWithURL, then the provider and file test
BeginWith(p, urls, destDirs) ==
    /\ pc[p] = "idle"
    /\ \E url \in urls, destDir \in destDirs, token \in {<<>>, <<"tokenA">>} :
          LET r == NewGitUrlWithURL(url)
          IN  /\ call' = [call EXCEPT ![p] = [url |-> url, destDir |-> destDir,
                                              token |-> token]]
              /\ gitUrl' = [gitUrl EXCEPT ![p] = r.g]
              /\ dest0' = [dest0 EXCEPT ![p] = Content(fs, destDir)]
              /\ steps' = [steps EXCEPT ![p] = <<Step("parse", r.err # Nil, <<>>)>>]
              /\ IF r.err # Nil
                 THEN pc' = [pc EXCEPT ![p] = "done"]
                      /\ ret' = [ret EXCEPT ![p] = r.err]
                 ELSE IF IsGitProviderRepo(r.g) /\ r.g.IsFile
                 THEN pc' = [pc EXCEPT ![p] = "tempdir"] /\ ret' = ret
                 ELSE pc' = [pc EXCEPT ![p] = "done"] /\ ret' = ret
    /\ UNCHANGED <<urlVars, fs, stackDir>>

Begin(p) == BeginWith(p, DownloadUrls, {OutDir(p), MissingDir})

\* a call for a file, with the destination of the caller
BeginFile(p) == BeginWith(p, ConcurrentUrls, {OutDir(p)})

\* one directory with a fixed name, made when it is not there yet
TempDirShared(p) ==
    /\ pc[p] = "tempdir"
    /\ stackDir' = [stackDir EXCEPT ![p] = ScratchName(1)]
    /\ fs' = [fs EXCEPT !.dirs = @ \cup {ScratchName(1)}]
    /\ steps' = [steps EXCEPT ![p] = Append(@, Step("tempdir", FALSE, <<>>))]
    /\ pc' = [pc EXCEPT ![p] = "probe"]
    /\ UNCHANGED <<urlVars, call, gitUrl, ret, dest0>>

\* the destination itself used as the directory to clone into
TempDirInDest(p) ==
    /\ pc[p] = "tempdir"
    /\ stackDir' = [stackDir EXCEPT ![p] = call[p].destDir]
    /\ steps' = [steps EXCEPT ![p] = Append(@, Step("tempdir", FALSE, <<>>))]
    /\ pc' = [pc EXCEPT ![p] = "probe"]
    /\ UNCHANGED <<urlVars, fs, call, gitUrl, ret, dest0>>

\* ioutil.TempDir: a directory with a name nothing has yet, or an error
TempDir(p) ==
    /\ pc[p] = "tempdir"
    /\ \/ \E i \in 1 .. NumScratchNames :
            /\ ~Exists(fs, ScratchName(i))
            /\ stackDir' = [stackDir EXCEPT ![p] = ScratchName(i)]
            /\ fs' = [fs EXCEPT !.dirs = @ \cup {ScratchName(i)}]
            /\ steps' = [steps EXCEPT ![p] = Append(@, Step("tempdir", FALSE, <<>>))]
            /\ pc' = [pc EXCEPT ![p] = "probe"]
            /\ ret' = ret
       \/ /\ steps' = [steps EXCEPT ![p] = Append(@, Step("tempdir", TRUE, <<>>))]
          /\ ret' = [ret EXCEPT ![p] =
                        <<"failed to create dir: ">> \o stackDir[p]
                            \o <<", error: ", "mkdir failed">>]
          /\ pc' = [pc EXCEPT ![p] = "done"]
          /\ UNCHANGED <<fs, stackDir>>
    /\ UNCHANGED <<urlVars, call, gitUrl, dest0>>

\* gitUrl.IsPublic
\* a probe followed by the token validation whatever it answers
PublicProbeThenToken(p) ==
    /\ pc[p] = "probe"
    /\ \E resp \in Responses :
          LET pub == IsPublic(gitUrl[p], resp)
          IN  /\ steps' = [steps EXCEPT ![p] =
                              Append(@, Step("public probe", ~pub,
                                             Sent(gitUrl[p], <<>>)))]
              /\ pc' = [pc EXCEPT ![p] = "settoken"]
    /\ UNCHANGED <<urlVars, fs, call, gitUrl, stackDir, ret, dest0>>

\* gitUrl.IsPublic, and the branch on its answer
PublicProbe(p) ==
    /\ pc[p] = "probe"
    /\ \E resp \in Responses :
          LET pub == IsPublic(gitUrl[p], resp)
          IN  /\ steps' = [steps EXCEPT ![p] =
                              Append(@, Step("public probe", ~pub,
                                             Sent(gitUrl[p], <<>>)))]
              /\ pc' = [pc EXCEPT ![p] = IF pub THEN "clone" ELSE "settoken"]
    /\ UNCHANGED <<urlVars, fs, call, gitUrl, stackDir, ret, dest0>>

\* the error of SetToken dropped: the call goes on to the clone
TokenValidationIgnored(p) ==
    /\ pc[p] = "settoken"
    /\ \E resp \in Responses :
          LET r == SetToken(gitUrl[p], call[p].token, resp)
          IN  /\ gitUrl' = [gitUrl EXCEPT ![p] = r.g]
              /\ steps' = [steps EXCEPT ![p] =
                              Append(@, Step("token validation", r.err # Nil,
                                             Sent(gitUrl[p], call[p].token)))]
              /\ pc' = [pc EXCEPT ![p] = "clone"]
    /\ UNCHANGED <<urlVars, fs, call, stackDir, ret, dest0>>

\* gitUrl.SetToken, and the return on its error
TokenValidation(p) ==
    /\ pc[p] = "settoken"
    /\ \E resp \in Responses :
          LET r == SetToken(gitUrl[p], call[p].token, resp)
          IN  /\ gitUrl' = [gitUrl EXCEPT ![p] = r.g]
              /\ steps' = [steps EXCEPT ![p] =
                              Append(@, Step("token validation", r.err # Nil,
                                             Sent(gitUrl[p], call[p].token)))]
              /\ IF r.err # Nil
                 THEN /\ ret' = [ret EXCEPT ![p] = r.err]
                      /\ pc' = [pc EXCEPT ![p] = "done"]
                      /\ fs' = deferredRemoveAll(fs, stackDir[p])
                 ELSE /\ pc' = [pc EXCEPT ![p] = "clone"]
                      /\ UNCHANGED <<ret, fs>>
    /\ UNCHANGED <<urlVars, call, stackDir, dest0>>

\* gitUrl.CloneGitRepo(stackDir), and the return on its error
Clone(p) ==
    /\ pc[p] = "clone"
    /\ \E run \in RunResults(fs, stackDir[p], cloneArgsHere(gitUrl[p])) :
          LET c == CloneGitRepoHere(gitUrl[p], stackDir[p], fs, run)
          IN  /\ steps' = [steps EXCEPT ![p] =
                              Append(@, Step("clone", c.err # Nil, c.started))]
              /\ IF c.err # Nil
                 THEN /\ ret' = [ret EXCEPT ![p] = c.err]
                      /\ pc' = [pc EXCEPT ![p] = "done"]
                      /\ fs' = deferredRemoveAll(AfterClone(fs, c), stackDir[p])
                 ELSE /\ pc' = [pc EXCEPT ![p] = "copy"]
                      /\ fs' = AfterClone(fs, c)
                      /\ ret' = ret
    /\ UNCHANGED <<urlVars, call, gitUrl, stackDir, dest0>>

\* CopyAllDirFiles(dir, destDir), and the return
Copy(p) ==
    /\ pc[p] = "copy"
    /\ LET dir == targetDir(stackDir[p], gitUrl[p])
       IN  \E copied \in SUBSET Entries(fs, dir) :
              LET r == CopyAllDirFiles(fs, dir, call[p].destDir, copied)
              IN  /\ steps' = [steps EXCEPT ![p] =
                                  Append(@, Step("copy", r.err # Nil, <<>>))]
                  /\ ret' = [ret EXCEPT ![p] = r.err]
                  /\ fs' = deferredRemoveAll(r.fs, stackDir[p])
                  /\ pc' = [pc EXCEPT ![p] = "done"]
    /\ UNCHANGED <<urlVars, call, gitUrl, stackDir, dest0>>

Next ==
    \E p \in Callers :
        \/ Begin(p)
        \/ TempDir(p)
        \/ PublicProbe(p)
        \/ TokenValidation(p)
        \/ Clone(p)
        \/ Copy(p)

Spec == Init /\ [][Next]_vars

\* every caller has a call of its own: the calls run concurrently
InitConcurrent ==
    /\ g = Url
    /\ last = NoCall
    /\ executed = <<>>
    /\ fs = InitFs
    /\ pc = [p \in Callers |-> "idle"]
    /\ call = [p \in Callers |-> [url |-> <<>>, destDir |-> <<>>, token |-> <<>>]]
    /\ gitUrl = [p \in Callers |-> Url]
    /\ stackDir = [p \in Callers |-> <<>>]
    /\ ret = [p \in Callers |-> Nil]
    /\ steps = [p \in Callers |-> <<>>]
    /\ dest0 = [p \in Callers |-> {}]

NextConcurrent ==
    \E p \in Callers :
        \/ BeginFile(p)
        \/ TempDir(p)
        \/ PublicProbe(p)
        \/ TokenValidation(p)
        \/ Clone(p)
        \/ Copy(p)

SpecConcurrent == InitConcurrent /\ [][NextConcurrent]_vars

----------------------------------------------------------------------------
(* Properties of the access classifier, checked under SpecUrl              *)

\* the probe the design describes: a 2xx response with a non-empty body
ProbeSucceeds(u, resp) ==
    /\ NewRequestErr(apiUrl(u)) = Nil
    /\ resp.kind = "http"
    /\ resp.status >= 200 /\ resp.status <= 299
    /\ resp.body # <<>>

\* C1: after a SetToken call the stored token is the candidate of that call
\* when its probe succeeded, and is empty, with an error returned, when its
\* probe failed; whatever token an earlier call had stored.
C1_TokenFollowsLastProbe ==
    last.op = "SetToken" =>
        IF ProbeSucceeds(g, last.resp)
        THEN g.token = last.arg /\ last.err = Nil
        ELSE g.token = <<>> /\ last.err # Nil

\* C2: a probe answered with a 2xx status and an empty body fails: IsPublic
\* returns false, SetToken returns an error and leaves the token empty.
C2_EmptyBodyFails ==
    (/\ last.op \in {"IsPublic", "SetToken"}
     /\ last.resp.kind = "http"
     /\ last.resp.status >= 200 /\ last.resp.status <= 299
     /\ last.resp.body = <<>>) =>
        /\ last.op = "IsPublic" => ~last.pub
        /\ last.op = "SetToken" => last.err # Nil /\ g.token = <<>>

\* C3: a probe answered with a status outside 200..299 fails, whatever the
\* body: IsPublic returns false, SetToken returns an error and stores no token.
C3_Non2xxFails ==
    (/\ last.op \in {"IsPublic", "SetToken"}
     /\ last.resp.kind = "http"
     /\ ~(last.resp.status >= 200 /\ last.resp.status <= 299)) =>
        /\ last.op = "IsPublic" => ~last.pub
        /\ last.op = "SetToken" => last.err # Nil /\ g.token = <<>>

----------------------------------------------------------------------------
(* Properties of the clone step, checked under SpecUrl                     *)

DestinationMissing(destDir) ==
    <<"failed to clone repo, destination directory: '">> \o destDir
        \o <<"' does not exists">>

\* C9: CloneGitRepo with a destination that does not exist returns the
\* destination-missing error and the process runner is not invoked.
C9_MissingDestNoProcess ==
    (last.op = "CloneGitRepo" /\ ~Exists(fs, last.arg)) =>
        /\ last.err = DestinationMissing(last.arg)
        /\ executed = <<>>

C9_Witness ==
    /\ last.op = "CloneGitRepo"
    /\ ~Exists(fs, last.arg)
    /\ g.token # <<>>
    /\ g.Host = GitHubHost

\* the remote URL the design gives for reference u
ExpectedRemote(u) ==
    LET host == IF u.Host = RawGitHubHost THEN GitHubHost ELSE u.Host
        tail == host \o <<"/">> \o u.Owner \o <<"/">> \o u.Repo \o <<".", "git">>
    IN  IF u.token = <<>>
        THEN u.Protocol \o <<":", "/", "/">> \o tail
        ELSE IF u.Host = BitbucketHost
        THEN u.Protocol \o <<":", "/", "/", "x", "-", "token", "-", "auth", ":">>
                 \o u.token \o <<"@">> \o tail
        ELSE u.Protocol \o <<":", "/", "/", "token", ":">>
                 \o u.token \o <<"@">> \o tail

\* C10: the remote URL passed to "git clone" is protocol://host/owner/repo.git
\* without a token, protocol://token:<token>@host/... with a token on GitHub,
\* raw GitHub and GitLab, protocol://x-token-auth:<token>@host/... with a
\* token on Bitbucket, and the raw GitHub host never appears in it.
C10_RemoteUrl ==
    (last.op = "CloneGitRepo" /\ executed # <<>>) =>
        /\ Len(executed) = 1
        /\ executed[1].Args[1] = <<"clone">>
        /\ (g.token = <<>> \/ IsGitProviderRepo(g)) =>
               executed[1].Args[2] = ExpectedRemote(g)
        /\ IndexOfSeq(executed[1].Args[2], RawGitHubHost, 1) = 0

C10_Witness ==
    /\ last.op = "CloneGitRepo"
    /\ executed # <<>>
    /\ g.Host = RawGitHubHost
    /\ g.token # <<>>

----------------------------------------------------------------------------
(* Properties of DownloadResourcesToDest, checked under Spec               *)

Ran(p, name) == \E i \in 1 .. Len(steps[p]) : steps[p][i].step = name

LastStep(p) == steps[p][Len(steps[p])]

\* C4: once a call has created its scratch directory, the directory is gone
\* when the call has returned, on every exit path.
C4_ScratchRemoved ==
    \A p \in Callers :
        (pc[p] = "done" /\ stackDir[p] # <<>>) =>
            /\ ~Exists(fs, stackDir[p])
            /\ Under(fs, stackDir[p]) = {}

C4_Witness ==
    \E p \in Callers :
        /\ pc[p] = "done"
        /\ stackDir[p] # <<>>
        /\ LastStep(p).step = "copy"
        /\ LastStep(p).failed
        /\ Content(fs, call[p].destDir) # dest0[p]

StepOrder ==
    <<"parse", "tempdir", "public probe", "token validation", "clone", "copy">>

Rank(name) == CHOOSE i \in 1 .. Len(StepOrder) : StepOrder[i] = name

\* C5: the steps of one call run at most once each and in the order parse,
\* public probe, token validation (only after a failed public probe), clone,
\* copy; a step that fails is the last one and the call returns its error; no
\* process is started once token validation has failed.
C5_StepsInOrder ==
    \A p \in Callers :
        LET s == steps[p]
        IN  /\ \A i, j \in 1 .. Len(s) :
                   i < j => Rank(s[i].step) < Rank(s[j].step)
            /\ \A i \in 1 .. Len(s) :
                   /\ (s[i].failed /\ s[i].step # "public probe") =>
                          i = Len(s) /\ pc[p] = "done" /\ ret[p] # Nil
                   /\ s[i].step = "token validation" =>
                          s[i - 1].step = "public probe" /\ s[i - 1].failed
                   /\ s[i].step = "clone" => Len(s[i].io) <= 1
                   /\ s[i].step \in {"clone", "copy"} =>
                          \A j \in 1 .. i - 1 :
                              s[j].step = "token validation" => ~s[j].failed

C5_Witness ==
    \E p \in Callers :
        /\ pc[p] = "done"
        /\ LastStep(p).step = "token validation"
        /\ LastStep(p).failed

\* C6: when a call for a file URL returns success, the clone had its root at
\* the scratch directory, so a file the repository has at path p was at
\* scratch/p, and the destination holds every entry of scratch/dirname(p),
\* the target file included.
C6_FileCopied ==
    [][\A p \in Callers :
          (pc[p] = "copy" /\ pc'[p] = "done" /\ ret'[p] = Nil
               /\ gitUrl[p].IsFile) =>
              LET path == gitUrl[p].Path
                  dir == PathJoin(stackDir[p], PathDir(path))
                  inDest(name) == PathJoin(call[p].destDir, name)
                                      \in fs'.dirs \cup fs'.files
              IN  /\ \A i \in 1 .. Len(steps[p]) :
                         steps[p][i].step = "clone" =>
                             /\ Len(steps[p][i].io) = 1
                             /\ CloneRoot(steps[p][i].io[1].BaseDir,
                                          steps[p][i].io[1].Args) = stackDir[p]
                  /\ path \in RemoteFiles <=>
                         PathJoin(stackDir[p], path) \in fs.files
                  /\ \A e \in Entries(fs, dir) : inDest(PathBase(e))
                  /\ path \in RemoteFiles => inDest(PathBase(path))]_vars

C6_Witness ==
    \E p \in Callers :
        /\ pc[p] = "done"
        /\ ret[p] = Nil
        /\ Ran(p, "copy")
        /\ gitUrl[p].Path = <<"stacks", "/", "devfile", ".", "yaml">>
        /\ call[p].destDir \o <<"/", "deploy", ".", "yaml">> \in fs.files

\* C7: a URL that parses to a reference that does not target a file is
\* rejected: the call returns an error, and creates no scratch directory,
\* sends no probe, starts no clone and copies nothing.
C7_NonFileRejected ==
    \A p \in Callers :
        (pc[p] = "done" /\ ~steps[p][1].failed /\ ~gitUrl[p].IsFile) =>
            /\ ret[p] # Nil
            /\ Len(steps[p]) = 1
            /\ stackDir[p] = <<>>
            /\ Content(fs, call[p].destDir) = dest0[p]

\* C8: a call that fails at the parse step, at token validation or at the
\* clone step leaves the destination as it was when the call began; only a
\* call that reached the copy step can have changed it.
C8_DestUntouched ==
    \A p \in Callers :
        (pc[p] = "done" /\ ~Ran(p, "copy")) =>
            Content(fs, call[p].destDir) = dest0[p]

C8_Witness ==
    \E p \in Callers :
        /\ pc[p] = "done"
        /\ ret[p] # Nil
        /\ LastStep(p).step = "clone"
        /\ dest0[p] # {}

----------------------------------------------------------------------------
(* Properties of the process runner and of the clone errors (SpecUrl)      *)

\* C11: the runner starts a process only for the command "git"; for every
\* other command it returns the unsupported-command error naming that
\* command and starts no process.
C11_OnlyGitStarts ==
    /\ \A i \in 1 .. Len(executed) : executed[i].Command = "git"
    /\ last.op = "execute" =>
           IF last.arg = <<"git">>
           THEN /\ Len(executed) = 1
                /\ last.err = last.run.err
           ELSE /\ executed = <<>>
                /\ last.err = <<"Unsupported command \"", last.arg[1], "\" ">>

C11_Witness ==
    /\ last.op = "execute"
    /\ last.arg = <<"cd">>
    /\ executed = <<>>
    /\ last.err # Nil

WithoutTokenMsg ==
    <<"failed to clone repo without a token, ensure that a token is set if the repo is private. error: ">>

WithTokenMsg ==
    <<"failed to clone repo with token, ensure that the url and token is correct. error: ">>

\* C12: when the clone process returns an error, CloneGitRepo returns the
\* "without a token" message when the token of the reference is empty and
\* the "with token" message when it is not, each followed by the process
\* error; when the process returns no error, CloneGitRepo returns none.
C12_CloneErrorByToken ==
    (last.op = "CloneGitRepo" /\ executed # <<>>) =>
        IF last.run.err = Nil THEN last.err = Nil
        ELSE IF g.token = <<>>
        THEN last.err = WithoutTokenMsg \o last.run.err
        ELSE last.err = WithTokenMsg \o last.run.err

C12_Witness ==
    /\ last.op = "CloneGitRepo"
    /\ executed # <<>>
    /\ last.run.err # Nil
    /\ g.token # <<>>
    /\ last.err = WithTokenMsg \o last.run.err

----------------------------------------------------------------------------
(* Secrecy of the token in returned errors (Spec)                          *)

\* C13: the error returned by SetToken, CloneGitRepo or
\* DownloadResourcesToDest does not contain the token: the error a call
\* returns has no occurrence of the token it was given, and for the reference
\* of every call, two non-empty tokens that meet the same transport response
\* or the same process result give the same error.
C13_NoTokenInErrors ==
    \A p \in Callers :
        /\ (pc[p] = "done" /\ call[p].token # <<>>) =>
               IndexOfSeq(ret[p], call[p].token, 1) = 0
        /\ \A t1, t2 \in Tokens \ {<<>>} :
               /\ \A resp \in Responses :
                      SetToken(gitUrl[p], t1, resp).err
                          = SetToken(gitUrl[p], t2, resp).err
               /\ \A run \in {RunOk, RunFailed} :
                      \A d \in {stackDir[p], call[p].destDir, MissingDir} :
                          CloneGitRepoHere([gitUrl[p] EXCEPT !.token = t1],
                                           d, fs, run).err
                              = CloneGitRepoHere([gitUrl[p] EXCEPT !.token = t2],
                                                 d, fs, run).err

C13_Witness ==
    \E p \in Callers :
        /\ pc[p] = "done"
        /\ call[p].token # <<>>
        /\ gitUrl[p].token = call[p].token
        /\ LastStep(p).step = "clone"
        /\ ret[p] = WithTokenMsg \o RunFailed.err

----------------------------------------------------------------------------
(* Properties of the URL grammar parser, checked under SpecParse for a     *)
(* parse into a fresh reference                                            *)

KnownHosts == {GitHubHost, RawGitHubHost, GitLabHost, BitbucketHost}

\* the URL of the last parse, as net/url reads it
Parsed == urlParse(last.arg)

\* the "/"-separated segments of the URL path after the leading slash
Segments == IF Parsed.Path = <<>> THEN <<>> ELSE Split(From(Parsed.Path, 1), <<"/">>)

FreshParse == last.op = "NewGitUrl"

ParsedOk == FreshParse /\ last.err = Nil

InvalidUrl(err) == err = <<"URL is invalid">> \/ HasPrefix(err, <<"parse \"">>)

EmptyPath == <<"url path should not be empty">>

UnsupportedHost(host) ==
    <<"url host should be a valid GitHub, GitLab, or Bitbucket host; received: ">>
        \o host

\* C14: parse checks in this order: a string without scheme or host fails
\* with InvalidUrl; otherwise an empty path fails with EmptyPath; otherwise
\* an unknown host fails with UnsupportedHost, and no grammar has written to
\* the reference; only for a known host with a path has a grammar run.
C14_CheckPrecedence ==
    FreshParse =>
        IF Parsed.err # Nil \/ Parsed.Scheme = <<>> \/ Parsed.Host = <<>>
        THEN InvalidUrl(last.err) /\ g = Url
        ELSE IF Parsed.Path = <<>>
        THEN last.err = EmptyPath /\ g = Url
        ELSE IF Parsed.Host \notin KnownHosts
        THEN last.err = UnsupportedHost(Parsed.Host) /\ g = Url
        ELSE /\ g.Host = Parsed.Host
             /\ ~InvalidUrl(last.err)
             /\ last.err \notin {EmptyPath, UnsupportedHost(Parsed.Host)}

C14_Witness ==
    /\ FreshParse
    /\ last.arg = https(UnknownHost, <<>>)
    /\ last.err = EmptyPath

C16_BranchAndPathTogether ==
    ParsedOk => ((g.Branch = <<>>) <=> (g.Path = <<>>))

\* C17: after a parse without error of a URL with a non-empty path, Owner
\* and Repo of the reference are both non-empty.
C17_OwnerAndRepoSet ==
    (ParsedOk /\ Parsed.Path # <<>>) => (g.Owner # <<>> /\ g.Repo # <<>>)

\* the last parse was given an absolute URL on this host, with a path
ParsedOn(host) ==
    /\ FreshParse
    /\ Parsed.err = Nil /\ Parsed.Scheme # <<>>
    /\ Parsed.Host = host
    /\ Parsed.Path # <<>>

\* the first n segments of the path, each followed by a slash
RECURSIVE Leading(_)
Leading(n) ==
    IF n = 0 THEN <<>> ELSE Leading(n - 1) \o Segments[n] \o <<"/">>

MissingKeyword ==
    <<"url path to directory or file should contain 'tree' or 'blob'">>

MissingBranchOrPath ==
    <<"url path should contain <owner>/<repo>/<tree or blob>/<branch>/<path/to/file/or/directory>, received: ">>

\* C18: a github.com URL with more than two path segments parses without
\* error exactly when its third segment is "tree" or "blob" and it has five
\* segments, the fifth being the rest of the path; then Branch is the fourth
\* segment, Path is the rest, and IsFile is true for "blob" and false for
\* "tree". Otherwise the parse fails with a malformed-path error, for
\* owner/repo/blob/main the one that names the five parts.
C18_GitHubPath ==
    (ParsedOn(GitHubHost) /\ Len(Segments) > 2) =>
        IF Segments[3] \in {<<"tree">>, <<"blob">>} /\ Len(Segments) >= 5
        THEN /\ last.err = Nil
             /\ g.Owner = Segments[1] /\ g.Repo = Segments[2]
             /\ g.Branch = Segments[4]
             /\ From(Parsed.Path, 1) = Leading(4) \o g.Path
             /\ g.IsFile = (Segments[3] = <<"blob">>)
        ELSE /\ last.err \in {MissingKeyword,
                               MissingBranchOrPath \o From(Parsed.Path, 1)}
             /\ (Segments[3] \in {<<"tree">>, <<"blob">>}) =>
                    last.err = MissingBranchOrPath \o From(Parsed.Path, 1)

C18_Witness ==
    /\ FreshParse
    /\ last.arg = https(GitHubHost, OwnerRepo \o <<"/", "blob", "/", "main">>)
    /\ last.err = MissingBranchOrPath
                      \o <<"devfile", "/", "registry", "/", "blob", "/", "main">>

MalformedRawPath ==
    <<"raw url path should contain <owner>/<repo>/<branch>/<path/to/file>, received: ">>

\* C19: a raw.githubusercontent.com URL parses without error exactly when
\* its path has four segments owner, repo, branch and file path, the file
\* path being the rest of the path with its slashes; the reference then has
\* IsFile true. With fewer segments the parse fails with the raw-path error.
C19_RawPath ==
    ParsedOn(RawGitHubHost) =>
        IF Len(Segments) >= 4
        THEN /\ last.err = Nil
             /\ g.Owner = Segments[1] /\ g.Repo = Segments[2]
             /\ g.Branch = Segments[3]
             /\ From(Parsed.Path, 1) = Leading(3) \o g.Path
             /\ g.IsFile
        ELSE last.err = MalformedRawPath \o From(Parsed.Path, 1)

C19_Witness ==
    /\ ParsedOk
    /\ g.Host = RawGitHubHost
    /\ g.Branch = <<"main">>
    /\ g.Path = <<"stacks", "/">> \o Yaml
    /\ g.IsFile

\* C20: a gitlab.com URL whose path before the first "/-/" does not have
\* exactly two segments, owner and repo, fails to parse.
C20_GitLabTwoSegments ==
    LET prefix == Split(From(Parsed.Path, 1), <<"/", "-", "/">>)[1]
    IN  (ParsedOn(GitLabHost) /\ Len(Split(prefix, <<"/">>)) # 2) =>
            last.err # Nil

GitLabKeywords == {<<"blob">>, <<"tree">>, <<"raw">>}

UnknownGitLabKeyword ==
    <<"url path should contain 'blob' or 'tree' or 'raw', received: ">>

\* C21: a gitlab.com URL with an owner/repo prefix and a suffix after "/-/"
\* parses without error exactly when the suffix has three segments, the
\* third being the rest of the suffix, and its first segment is "blob",
\* "tree" or "raw"; then Branch is the second segment and Path the rest. A
\* suffix whose first segment is not one of the keywords fails with the
\* unknown-keyword error.
C21_GitLabSuffix ==
    LET path == From(Parsed.Path, 1)
        i == IndexOfSeq(path, <<"/", "-", "/">>, 1)
        prefix == SubSeq(path, 1, i - 1)
        suffix == SubSeq(path, i + 3, Len(path))
        segs == Split(suffix, <<"/">>)
    IN  (/\ ParsedOn(GitLabHost)
         /\ i # 0
         /\ Len(Split(prefix, <<"/">>)) = 2) =>
            IF Len(segs) >= 3 /\ segs[1] \in GitLabKeywords
            THEN /\ last.err = Nil
                 /\ g.Branch = segs[2]
                 /\ suffix = segs[1] \o <<"/">> \o segs[2] \o <<"/">> \o g.Path
            ELSE /\ last.err # Nil
                 /\ segs[1] \notin GitLabKeywords =>
                        last.err = UnknownGitLabKeyword \o path

BitbucketKeywords == {<<"src">>, <<"raw">>}

MissingOwnerOrRepo == <<"url path should contain <user>/<repo>, received: ">>

UnknownBitbucketKeyword ==
    <<"url path should contain 'raw' or 'src', received: ">>

IncompleteBitbucketPath ==
    <<"url path should contain path to directory or file, received: ">>

\* C22: a bitbucket.org URL with fewer than two path segments fails; with
\* exactly two it parses into a bare-repository reference; with five, the
\* fifth being the rest of the path, it parses exactly when the third is
\* "src" or "raw", Branch being the fourth and Path the rest, and fails with
\* the unknown-keyword error otherwise; with three or four it fails with the
\* incomplete-path error.
C22_BitbucketPath ==
    LET path == From(Parsed.Path, 1)
        n == Len(Segments)
    IN  ParsedOn(BitbucketHost) =>
            IF n < 2 THEN last.err = MissingOwnerOrRepo \o path
            ELSE IF n = 2
            THEN /\ last.err = Nil
                 /\ g.Owner = Segments[1] /\ g.Repo = Segments[2]
                 /\ g.Branch = <<>> /\ g.Path = <<>> /\ ~g.IsFile
            ELSE IF n < 5 THEN last.err = IncompleteBitbucketPath \o path
            ELSE IF Segments[3] \in BitbucketKeywords
            THEN /\ last.err = Nil
                 /\ g.Owner = Segments[1] /\ g.Repo = Segments[2]
                 /\ g.Branch = Segments[4]
                 /\ path = Leading(4) \o g.Path
            ELSE last.err = UnknownBitbucketKeyword \o path

C22_Witness ==
    /\ FreshParse
    /\ Parsed.Host = BitbucketHost
    /\ Len(Segments) >= 5
    /\ Segments[3] \notin BitbucketKeywords
    /\ last.err = UnknownBitbucketKeyword \o From(Parsed.Path, 1)

\* the last "/"-separated segment of the path of the reference
LastSegment == Split(g.Path, <<"/">>)[Len(Split(g.Path, <<"/">>))]

\* C23: after a GitLab or Bitbucket URL has parsed with a path, IsFile is
\* true exactly when the last segment of the path has a dot followed by at
\* least one character.
C23_IsFileByExtension ==
    (/\ ParsedOk
     /\ g.Host \in {GitLabHost, BitbucketHost}
     /\ g.Path # <<>>) =>
        (g.IsFile <=> \E i \in 1 .. Len(LastSegment) - 1 : LastSegment[i] = ".")

\* C24: after a parse without error the Protocol of the reference is "https".
C24_ProtocolIsHttps ==
    ParsedOk => g.Protocol = <<"https">>

ParsedFields == {"Protocol", "Host", "Owner", "Repo", "Branch", "Path", "IsFile"}

\* C25: the result of a parse depends on the URL only: a parse into a
\* reference that an earlier parse has filled returns the error, and leaves
\* the fields, that the parse of the same URL into a fresh reference gives.
C25_ParseDependsOnUrlOnly ==
    last.op = "NewGitUrlAgain" =>
        LET fresh == ParseGitUrl(Url, last.arg)
        IN  /\ last.err = fresh.err
            /\ \A f \in ParsedFields : g[f] = fresh.g[f]

----------------------------------------------------------------------------
(* The raw-file endpoint, checked under SpecParse                          *)

RawPrefix == <<"https", ":", "/", "/">> \o RawGitHubHost \o <<"/">>

\* the endpoint the design gives for reference u
ExpectedEndpoint(u) ==
    IF u.Host \in {GitHubHost, RawGitHubHost}
    THEN RawPrefix \o u.Owner \o <<"/">> \o u.Repo \o <<"/">> \o u.Branch
             \o <<"/">> \o u.Path
    ELSE IF u.Host = GitLabHost
    THEN <<"https", ":", "/", "/">> \o GitLabHost
             \o <<"/", "api", "/", "v4", "/", "projects", "/">>
             \o u.Owner \o <<"%2F">> \o u.Repo
             \o <<"/", "repository", "/", "files", "/">> \o u.Path
             \o <<"/", "raw">>
    ELSE IF u.Host = BitbucketHost
    THEN <<"https", ":", "/", "/", "api", ".">> \o BitbucketHost
             \o <<"/", "2", ".", "0", "/", "repositories", "/">>
             \o u.Owner \o <<"/">> \o u.Repo \o <<"/", "src", "/">>
             \o u.Branch \o <<"/">> \o u.Path
    ELSE <<>>

\* the raw-file endpoint is the one the design gives for the host of the
\* reference, whatever token it holds
EndpointByHost ==
    last.op = "GitRawFileAPI" => last.out = ExpectedEndpoint(g)

\* C26: the raw-file endpoint depends on host, owner, repo, branch and path
\* as the design states for each host and is empty for any other host; so
\* for the reference parsed without error from an https
\* raw.githubusercontent.com URL without query or fragment, the endpoint is
\* the URL itself.
C26_RawFileEndpoint ==
    last.op = "GitRawFileAPI" =>
        /\ last.out = ExpectedEndpoint(g)
        /\ (/\ HasPrefix(last.arg, RawPrefix)
            /\ Index(last.arg, "?") = 0
            /\ Index(last.arg, "#") = 0) =>
               last.out = last.arg

----------------------------------------------------------------------------
(* The public probe, checked under SpecUrl                                 *)

\* C27: IsPublic sends its probe without a token whatever token the
\* reference holds and returns no error: the request carries no
\* Authorization header, and a reference that differs only in its token
\* sends the same request and gets the same answer from the same response.
C27_PublicProbeWithoutToken ==
    last.op = "IsPublic" =>
        /\ last.err = Nil
        /\ \A i \in 1 .. Len(last.sent) : last.sent[i].Authorization = <<>>
        /\ \A t \in Tokens :
               LET other == [g EXCEPT !.token = t]
               IN  /\ Requests(other, IsPublicParams(other)) = last.sent
                   /\ IsPublic(other, last.resp) = last.pub

C27_Witness ==
    /\ last.op = "IsPublic"
    /\ g.token # <<>>
    /\ last.sent # <<>>
    /\ last.pub

----------------------------------------------------------------------------
(* Concurrent calls of DownloadResourcesToDest, checked under              *)
(* SpecConcurrent                                                          *)

\* the call of p has its scratch directory and has not returned
InUse(p) == pc[p] \in {"probe", "settoken", "clone", "copy"}

\* C28: with concurrent calls on disjoint destinations, two calls that are
\* both between the creation of their scratch directory and their return
\* have different scratch directories, the scratch directory of such a call
\* exists, and a step of one call changes neither what another call has in
\* its scratch directory nor what another call's destination holds, so each
\* call sees what it would see running alone.
C28_ConcurrentCallsIsolated ==
    [][\A p \in Callers :
          /\ InUse(p)' =>
                 /\ Exists(fs', stackDir'[p])
                 /\ \A q \in Callers \ {p} :
                        InUse(q)' => stackDir'[q] # stackDir'[p]
          /\ (pc'[p] = pc[p] /\ pc[p] # "idle") =>
                 /\ Content(fs', call[p].destDir) = Content(fs, call[p].destDir)
                 /\ InUse(p) =>
                        Content(fs', stackDir[p]) = Content(fs, stackDir[p])
                 /\ ret'[p] = ret[p] /\ steps'[p] = steps[p]
                 /\ gitUrl'[p] = gitUrl[p]]_vars

C28_Witness ==
    \E p, q \in Callers :
        /\ p # q
        /\ pc[p] = "copy"
        /\ pc[q] = "done"
        /\ Ran(q, "clone")
        /\ stackDir[q] # stackDir[p]
        /\ Content(fs, stackDir[p]) # {stackDir[p]}

----------------------------------------------------------------------------
(* The fields of the reference after the parse, checked under SpecUrl      *)

\* C29: no call other than a parse changes a field the parse has set:
\* IsPublic and CloneGitRepo leave the whole reference as it is, token
\* included, SetToken changes nothing but the token, so Protocol, Host,
\* Owner, Repo, Branch, Path and IsFile keep the values of the parse through
\* any sequence of these calls; the clone of a raw.githubusercontent.com
\* reference goes to github.com and leaves Host as it was.
C29_ParsedFieldsKept ==
    [][/\ last'.op \in {"IsPublic", "CloneGitRepo"} => g' = g
       /\ last'.op = "SetToken" =>
              \A f \in ParsedFields : g'[f] = g[f]
       /\ (last'.op = "CloneGitRepo" /\ executed' # <<>>) =>
              /\ executed'[1].Args[2] = repoUrl([g EXCEPT !.Host = cloneHost(g)])
              /\ g'.Host = g.Host]_vars

C29_Witness ==
    /\ last.op = "CloneGitRepo"
    /\ executed # <<>>
    /\ g.Host = RawGitHubHost
    /\ g.token # <<>>
    /\ g.Path # <<>>
    /\ executed[1].Args[2] = repoUrl([g EXCEPT !.Host = GitHubHost])

----------------------------------------------------------------------------
(* The token of DownloadResourcesToDest, checked under Spec                *)

\* the steps of caller p with the given name
StepsNamed(p, name) ==
    {i \in 1 .. Len(steps[p]) : steps[p][i].step = name}

\* C30: when the public probe of a call succeeds, no token validation runs,
\* the reference holds no token and the clone gets the remote URL without
\* credentials, whatever token the caller supplied; a token validation runs,
\* and the reference holds a token, only after a failed public probe, and
\* the token validated and held is the supplied one.
C30_TokenOnlyWhenNotPublic ==
    \A p \in Callers :
        LET s == steps[p]
            bare == [gitUrl[p] EXCEPT !.token = <<>>]
        IN  /\ \A i \in StepsNamed(p, "public probe") :
                   ~s[i].failed =>
                       /\ StepsNamed(p, "token validation") = {}
                       /\ gitUrl[p].token = <<>>
                       /\ \A j \in StepsNamed(p, "clone") :
                              \A k \in 1 .. Len(s[j].io) :
                                  /\ s[j].io[k].Args[2] = ExpectedRemote(bare)
                                  /\ Index(s[j].io[k].Args[2], "@") = 0
                                  /\ call[p].token # <<>> =>
                                         IndexOfSeq(s[j].io[k].Args[2],
                                                    call[p].token, 1) = 0
            /\ \A i \in StepsNamed(p, "token validation") :
                   /\ \E j \in StepsNamed(p, "public probe") : s[j].failed
                   /\ s[i].io = Sent(bare, call[p].token)
            /\ gitUrl[p].token # <<>> =>
                   /\ gitUrl[p].token = call[p].token
                   /\ \E i \in StepsNamed(p, "token validation") : ~s[i].failed

C30_Witness ==
    \E p \in Callers :
        /\ call[p].token # <<>>
        /\ \E i \in StepsNamed(p, "public probe") : ~steps[p][i].failed
        /\ \E j \in StepsNamed(p, "clone") :
               /\ ~steps[p][j].failed
               /\ steps[p][j].io # <<>>
        /\ pc[p] = "done"
        /\ ret[p] = Nil

====
